---- MODULE Spec2Model ----
(***************************************************************************)
(* Model of datasets/LJSpeechWorld.py: class LJSpeechWorldDataset.         *)
(*                                                                         *)
(*   __init__ / _sort_frames : the corpus index (sort by text length,      *)
(*                             drop records shorter than min_seq_len)      *)
(*   load_world / __getitem__: the example loader                          *)
(*   collate_fn              : the batch assembler                         *)
(*                                                                         *)
(* Arrays are modelled by value.  A 1-D array is a sequence of numbers, a  *)
(* 2-D array a sequence of rows, a 3-D array a sequence of 2-D arrays.     *)
(* The floats 0.0 and 1.0 are the integers 0 and 1.  Python indices are    *)
(* 0-based in the source and 1-based here.                                 *)
(*                                                                         *)
(* has_collections_mapping is the interpreter the dataset runs on: the     *)
(* alias collections.Mapping (line 88) exists up to Python 3.9 and was     *)
(* removed in Python 3.10.                                                 *)
(***************************************************************************)
EXTENDS Integers, Sequences, FiniteSets, TLC

VARIABLES csv, min_seq_len, outputs_per_step, frames, ignored, pc, op, ret,
          has_collections_mapping

vars == <<csv, min_seq_len, outputs_per_step, frames, ignored, pc, op, ret,
          has_collections_mapping>>

(***************************************************************************)
(* Bounds of the model.                                                    *)
(***************************************************************************)
MaxManifest == 3
MaxTextLen == 3
MaxMinSeqLen == 3
MaxR == 2
MaxBatch == 2
MaxTokens == 2
MaxFrames == 2
FreqBins == 2

(***************************************************************************)
(* Generic helpers.                                                        *)
(***************************************************************************)
Range(s) == {s[i] : i \in DOMAIN s}

MaxOf(S) == CHOOSE x \in S : \A y \in S : y <= x

Zeros(n) == [i \in 1..n |-> 0]

PadRight(x, length, v) == x \o [i \in 1..(length - Len(x)) |-> v]

\* x.shape[1] of a 2-D array (rows x columns)
Shape1(m) == IF m = <<>> THEN 0 ELSE Len(m[1])

\* x.T of a 2-D array
Transpose2D(m) ==
    IF m = <<>> THEN <<>>
    ELSE [c \in 1..Len(m[1]) |-> [t \in 1..Len(m) |-> m[t][c]]]

NoOp == [name |-> "none"]
NoRet == [status |-> "none"]

Raised(exc, line, padded) ==
    [status |-> "raised", exc |-> exc, line |-> line, padded |-> padded]

(***************************************************************************)
(* The manifest.  A line is the list line.split('|') produces: field 1 is  *)
(* the item identifier, field 2 the raw text.  A line without separator    *)
(* has one field.  Identifiers are the line numbers, so records are        *)
(* distinguishable.  A text is a sequence of characters.                   *)
(***************************************************************************)
Text(n) == [i \in 1..n |-> "a"]

Line(i, k) == IF k < 0 THEN <<i>> ELSE <<i, Text(k)>>

Manifests ==
    UNION {{[i \in 1..n |-> Line(i, ks[i])] : ks \in [1..n -> -1..MaxTextLen]}
           : n \in 0..MaxManifest}

(***************************************************************************)
(* _sort_frames                                                            *)
(***************************************************************************)
\* line 43: some line has no field [1]
HasShortLine(lines) == \E i \in DOMAIN lines : Len(lines[i]) < 2

\* line 43: lengths = np.array([len(ins[1]) for ins in self.frames])
text_lengths(lines) == [i \in DOMAIN lines |-> Len(lines[i][2])]

IsPermutation(p, n) ==
    /\ DOMAIN p = 1..n
    /\ \A i \in 1..n : \E j \in 1..n : p[j] = i

argsort_unsorted(lengths) == {[i \in 1..Len(lengths) |-> i]}

\* line 49: np.argsort(lengths), default kind: the order of equal keys is
\* not specified, so every sorting permutation is an outcome.
argsort(lengths) ==
    {p \in [1..Len(lengths) -> 1..Len(lengths)] :
        /\ IsPermutation(p, Len(lengths))
        /\ \A i \in 1..(Len(lengths) - 1) : lengths[p[i]] <= lengths[p[i + 1]]}

is_ignored_le(length, msl) == length <= msl

\* line 54: if length < self.min_seq_len
is_ignored(length, msl) == length < msl

\* lines 50-57: the loop over idxs
RECURSIVE new_frames_of(_, _, _, _)
new_frames_of(lines, lengths, idxs, msl) ==
    IF idxs = <<>> THEN <<>>
    ELSE LET idx == Head(idxs)
             rest == new_frames_of(lines, lengths, Tail(idxs), msl)
         IN IF is_ignored(lengths[idx], msl) THEN rest
            ELSE <<lines[idx]>> \o rest

RECURSIVE ignored_of(_, _, _)
ignored_of(lengths, idxs, msl) ==
    IF idxs = <<>> THEN <<>>
    ELSE LET idx == Head(idxs)
             rest == ignored_of(lengths, Tail(idxs), msl)
         IN IF is_ignored(lengths[idx], msl) THEN <<idx>> \o rest
            ELSE rest

\* __init__ (lines 16-30) with _sort_frames (lines 41-60)
Construct ==
    /\ pc = "new"
    /\ IF HasShortLine(csv)
       THEN /\ pc' = "failed"
            /\ ret' = Raised("IndexError", 43, FALSE)
            /\ frames' = csv
            /\ UNCHANGED ignored
       ELSE IF csv = <<>>
       THEN /\ pc' = "failed"
            /\ ret' = Raised("ValueError", 45, FALSE)
            /\ frames' = csv
            /\ UNCHANGED ignored
       ELSE \E idxs \in argsort(text_lengths(csv)) :
            /\ frames' = new_frames_of(csv, text_lengths(csv), idxs, min_seq_len)
            /\ ignored' = ignored_of(text_lengths(csv), idxs, min_seq_len)
            /\ pc' = "ready"
            /\ ret' = [status |-> "returned"]
    /\ op' = [name |-> "__init__"]
    /\ UNCHANGED <<csv, min_seq_len, outputs_per_step, has_collections_mapping>>

InitNew ==
    /\ csv \in Manifests
    /\ min_seq_len \in 0..MaxMinSeqLen
    /\ outputs_per_step = 1
    /\ frames = csv
    /\ ignored = <<>>
    /\ pc = "new"
    /\ op = NoOp
    /\ ret = NoRet
    /\ has_collections_mapping \in BOOLEAN

SpecIndex == InitNew /\ [][Construct]_vars

(***************************************************************************)
(* Corpus index claims.                                                    *)
(***************************************************************************)
TextLenOf(rec) == Len(rec[2])

\* C1: after construction the records of self.frames are in non-decreasing
\* order of the character length of their text field, and no retained
\* record has a text shorter than min_seq_len.
C1_SortedAndFiltered ==
    pc = "ready" =>
        /\ \A i \in 1..(Len(frames) - 1) :
               TextLenOf(frames[i]) <= TextLenOf(frames[i + 1])
        /\ \A i \in DOMAIN frames : TextLenOf(frames[i]) >= min_seq_len

\* construction reordered the manifest and dropped a record
C1_Witness ==
    /\ pc = "ready"
    /\ Len(frames) >= 2
    /\ ignored # <<>>
    /\ \E i \in 1..(Len(frames) - 1) : frames[i][1] > frames[i + 1][1]

\* C2: _sort_frames drops exactly the records whose text length is
\* strictly less than min_seq_len: every manifest record of length
\* >= min_seq_len appears exactly once in the index, no other record
\* appears, retained count + ignored count = original count, and with
\* min_seq_len = 0 nothing is dropped.
C2_DropsExactlyShort ==
    pc = "ready" =>
        /\ \A i \in DOMAIN csv :
               Cardinality({j \in DOMAIN frames : frames[j] = csv[i]})
                   = (IF TextLenOf(csv[i]) >= min_seq_len THEN 1 ELSE 0)
        /\ \A j \in DOMAIN frames : \E i \in DOMAIN csv : frames[j] = csv[i]
        /\ Len(frames) + Len(ignored) = Len(csv)
        /\ (min_seq_len = 0 => Len(frames) = Len(csv))

\* a record exactly min_seq_len long is kept while a shorter one is dropped
C2_Witness ==
    /\ pc = "ready"
    /\ min_seq_len > 0
    /\ \E j \in DOMAIN frames : TextLenOf(frames[j]) = min_seq_len
    /\ \E i \in DOMAIN csv : TextLenOf(csv[i]) = min_seq_len - 1
    /\ Len(ignored) >= 1

(***************************************************************************)
(* load_world and __getitem__                                              *)
(*                                                                         *)
(* The three companion files of an item are part of the environment: each  *)
(* is readable ("ok"), absent ("missing") or present but not loadable      *)
(* ("unreadable").  np.load raises FileNotFoundError for an absent file;   *)
(* for a file it cannot load, the exception class depends on the file and  *)
(* on the numpy build and is left open.                                    *)
(***************************************************************************)
FileStates == {"ok", "missing", "unreadable"}

UnreadableErrors == {"OSError", "ValueError", "RuntimeError"}

\* the exception classes np.load can raise for a file in state st
np_load_errors(st) ==
    IF st = "ok" THEN {"none"}
    ELSE IF st = "missing" THEN {"FileNotFoundError"}
    ELSE UnreadableErrors

\* a stored f0 array of n frames
F0Array(n) == [t \in 1..n |-> t]

\* a stored sp / ap array: n frames x FreqBins
FrameArray(n) == [t \in 1..n |-> [c \in 1..FreqBins |-> 10 * c + t]]

\* lines 32-39.  errs[k] is what np.load raises for companion k.  The loads
\* run in the order f0, sp, ap; the first exception ends the try block.
\* Only RuntimeError is caught: the handler prints and falls off the end
\* of the function, which returns None (none = TRUE).  n is the number of
\* frames of the stored arrays.
load_world(errs, n) ==
    LET bad == {k \in 1..3 : errs[k] # "none"} IN
    IF bad = {}
    THEN [status |-> "returned", none |-> FALSE,
          value |-> <<F0Array(n), FrameArray(n), FrameArray(n)>>]
    ELSE LET k == CHOOSE x \in bad : \A y \in bad : x <= y IN
         IF errs[k] = "RuntimeError"
         THEN [status |-> "returned", none |-> TRUE, value |-> <<>>]
         ELSE [status |-> "raised", exc |-> errs[k], line |-> 33 + k]

\* TTS.utils.text.text_to_sequence: one integer token id per character
text_to_sequence(text) == [i \in 1..Len(text) |-> 1]

\* lines 65-76.  Line 71 unpacks the result of load_world into three
\* names, which raises TypeError when the result is None.
getitem(frs, idx, errs, n) ==
    IF idx > Len(frs) THEN Raised("IndexError", 67, FALSE)
    ELSE LET text == text_to_sequence(frs[idx][2])
             lw == load_world(errs, n)
         IN IF lw.status = "raised" THEN Raised(lw.exc, lw.line, FALSE)
            ELSE IF lw.none THEN Raised("TypeError", 71, FALSE)
            ELSE [status |-> "returned",
                  sample |-> [text |-> text,
                              f0 |-> lw.value[1],
                              sp |-> Transpose2D(lw.value[2]),
                              ap |-> Transpose2D(lw.value[3]),
                              item_idx |-> frs[idx][1]]]

\* op and ret record one call on the constructed dataset; __getitem__
\* leaves the dataset unchanged, so one call per behaviour covers them all.
GetItem ==
    /\ pc = "ready"
    /\ op.name = "__init__"
    /\ \E idx \in 1..(Len(frames) + 1), fs \in [1..3 -> FileStates],
          n \in 1..MaxFrames :
         \E errs \in [1..3 -> UNION {np_load_errors(st) : st \in FileStates}] :
            /\ \A k \in 1..3 : errs[k] \in np_load_errors(fs[k])
            /\ op' = [name |-> "__getitem__", idx |-> idx, files |-> fs,
                      load |-> load_world(errs, n)]
            /\ ret' = getitem(frames, idx, errs, n)
    /\ UNCHANGED <<csv, min_seq_len, outputs_per_step, frames, ignored, pc,
                   has_collections_mapping>>

SpecLoad == InitNew /\ [][Construct \/ GetItem]_vars

\* C7: when any companion file of an item is missing or unreadable,
\* loading the item (load_world, and __getitem__ which calls it) does not
\* raise: the failure is logged and an empty result is returned.
C7_SoftFailOnMissingFile ==
    (/\ op.name = "__getitem__"
     /\ op.idx <= Len(frames)
     /\ \E k \in 1..3 : op.files[k] # "ok")
        => /\ op.load.status = "returned"
           /\ op.load.none
           /\ ret.status = "returned"

(***************************************************************************)
(* collate_fn                                                              *)
(*                                                                         *)
(* An element of a batch is a Python object with two properties the code   *)
(* looks at: whether it is an instance of collections.Mapping (line 88,    *)
(* tested for batch[0] only) and what d[key] does (lines 91-95):           *)
(*   subscript = "keys"       d[key] returns the value when key is one of  *)
(*                            d's keys and raises KeyError otherwise       *)
(*   subscript = "TypeError"  d is not subscriptable (None, a number)      *)
(*   subscript = "IndexError" d is an ndarray: a string index raises       *)
(*                            IndexError                                   *)
(* A value stored under a key is an array, or None for the keys listed in  *)
(* nones.  In a sample 'text' is a 1-D array of token ids, 'f0' a 1-D array, 'sp'  *)
(* and 'ap' are 2-D arrays FreqBins x frames (the orientation __getitem__  *)
(* produces).                                                              *)
(***************************************************************************)
Keys == <<"f0", "sp", "ap", "item_idx", "text">>

AllKeys == Range(Keys)

\* a dict with the given keys; nt tokens, nf0 / nsp / nap frames
Sample(keys, nt, nf0, nsp, nap) ==
    [mapping |-> TRUE,
     subscript |-> "keys",
     keys |-> keys,
     nones |-> {},
     text |-> [i \in 1..nt |-> 1],
     f0 |-> F0Array(nf0),
     sp |-> Transpose2D(FrameArray(nsp)),
     ap |-> Transpose2D(FrameArray(nap)),
     item_idx |-> "LJ001-0001"]

\* an object that is no Mapping but implements __getitem__ like sample d
Duck(d) == [d EXCEPT !.mapping = FALSE]

\* sample d with None stored under key
WithNone(d, key) == [d EXCEPT !.nones = {key}]

\* an object that is no Mapping and whose subscription raises exc
NoRecord(exc) ==
    [mapping |-> FALSE, subscript |-> exc, keys |-> {}, nones |-> {},
     text |-> <<>>,
     f0 |-> <<>>, sp |-> <<>>, ap |-> <<>>, item_idx |-> ""]

\* samples whose three feature streams have the same number of frames
AlignedSamples ==
    {Sample(AllKeys, nt, n, n, n) : nt \in 1..MaxTokens, n \in 1..MaxFrames}

\* samples whose feature streams disagree in their number of frames
MisalignedSamples ==
    {Sample(AllKeys, 1, t[1], t[2], t[3]) :
        t \in {u \in [1..3 -> 1..MaxFrames] : ~(u[1] = u[2] /\ u[2] = u[3])}}

\* elements that are no dict holding arrays under the five keys
OtherElements ==
    {NoRecord("TypeError"),
     NoRecord("IndexError"),
     Duck(Sample(AllKeys, 1, 1, 1, 1)),
     Sample(AllKeys \ {"text"}, 1, 1, 1, 1),
     Sample(AllKeys \ {"sp"}, 1, 1, 1, 1),
     WithNone(Sample(AllKeys, 1, 1, 1, 1), "text"),
     WithNone(Sample(AllKeys, 1, 1, 1, 1), "sp"),
     WithNone(Sample(AllKeys, 1, 1, 1, 1), "f0"),
     WithNone(Sample(AllKeys, 1, 1, 1, 1), "ap")}

Elements == AlignedSamples \cup MisalignedSamples \cup OtherElements

Batches == UNION {[1..n -> Elements] : n \in 0..MaxBatch}

\* the exception d[key] raises, "none" when it returns a value
SubscriptError(d, key) ==
    IF d.subscript # "keys" THEN d.subscript
    ELSE IF key \notin d.keys THEN "KeyError"
    ELSE "none"

\* the value d[key]
Field(d, key) ==
    IF key = "f0" THEN d.f0
    ELSE IF key = "sp" THEN d.sp
    ELSE IF key = "ap" THEN d.ap
    ELSE IF key = "item_idx" THEN d.item_idx
    ELSE d.text

\* lines 91-95: the list comprehensions run key by key in the order of
\* Keys, each over the batch in order.  Position p enumerates the
\* subscriptions d[key] in execution order.
SubscriptKey(batch, p) == ((p - 1) \div Len(batch)) + 1

SubscriptElem(batch, p) == ((p - 1) % Len(batch)) + 1

SubscriptFails(batch, p) ==
    SubscriptError(batch[SubscriptElem(batch, p)],
                   Keys[SubscriptKey(batch, p)]) # "none"

\* lines 88-95: the exception raised before the lengths are computed.
\* Line 88 evaluates batch[0] (IndexError on an empty batch), then
\* collections.Mapping (AttributeError where the alias does not exist);
\* a first element that is no Mapping skips the if block and reaches the
\* raise of line 135.  Later elements are only subscripted.
extract_error(batch) ==
    IF batch = <<>> THEN [exc |-> "IndexError", line |-> 88]
    ELSE IF ~has_collections_mapping
    THEN [exc |-> "AttributeError", line |-> 88]
    ELSE IF ~batch[1].mapping THEN [exc |-> "TypeError", line |-> 135]
    ELSE LET bad == {p \in 1..(Len(Keys) * Len(batch)) : SubscriptFails(batch, p)} IN
         IF bad = {} THEN [exc |-> "none", line |-> 0]
         ELSE LET p == CHOOSE x \in bad : \A y \in bad : x <= y IN
              [exc |-> SubscriptError(batch[SubscriptElem(batch, p)],
                                      Keys[SubscriptKey(batch, p)]),
               line |-> 90 + SubscriptKey(batch, p)]

\* lines 97-100: len(x) of a text that is None raises TypeError (line
\* 97), m.shape of an sp that is None raises AttributeError (line 100);
\* both run before the first padding helper.
length_error(batch) ==
    IF \E i \in DOMAIN batch : "text" \in batch[i].nones
    THEN [exc |-> "TypeError", line |-> 97]
    ELSE IF \E i \in DOMAIN batch : "sp" \in batch[i].nones
    THEN [exc |-> "AttributeError", line |-> 100]
    ELSE [exc |-> "none", line |-> 0]

\* lines 114-116: the helpers take the length of every input, which
\* raises for an f0 (line 114) or ap (line 116) that is None, after the
\* stop targets (line 107) and the tokens (line 111) have been padded.
padding_error(batch) ==
    IF \E i \in DOMAIN batch : "f0" \in batch[i].nones
    THEN [exc |-> "TypeError", line |-> 114]
    ELSE IF \E i \in DOMAIN batch : "ap" \in batch[i].nones
    THEN [exc |-> "AttributeError", line |-> 116]
    ELSE [exc |-> "none", line |-> 0]

text_length_plus_one(x) == Len(x) + 1

\* line 97: len(x)
text_length(x) == Len(x)

\* line 100: m.shape[1] + 1
spec_length(m) == Shape1(m) + 1

stop_target_init_full(sl) == Zeros(sl)

\* line 103: np.array([0.]*(sl-1))
stop_target_init(sl) == Zeros(sl - 1)

(***************************************************************************)
(* TTS.utils.data: the padding helpers, which datasets/LJSpeechWorld.py    *)
(* imports.  They are modelled from their documented behaviour: tokens     *)
(* are padded with 0 to the longest sequence; every feature stream is      *)
(* padded with 0 to the largest length plus a zero frame, rounded up to a  *)
(* multiple of out_steps; stop targets are padded with 1.0 to the          *)
(* smallest multiple of out_steps that is >= the longest target vector.    *)
(***************************************************************************)
pad_per_step(max_len, out_steps) ==
    IF max_len % out_steps > 0
    THEN max_len + (out_steps - (max_len % out_steps))
    ELSE max_len

\* prepare_data(inputs): right-pad 1-D arrays with 0 to the longest
prepare_data(inputs) ==
    LET max_len == MaxOf({Len(inputs[i]) : i \in DOMAIN inputs}) IN
    [i \in DOMAIN inputs |-> PadRight(inputs[i], max_len, 0)]

\* prepare_data(inputs, out_steps): right-pad 1-D arrays with 0
prepare_data_steps(inputs, out_steps) ==
    LET max_len == MaxOf({Len(inputs[i]) : i \in DOMAIN inputs}) + 1
        pad_len == pad_per_step(max_len, out_steps)
    IN [i \in DOMAIN inputs |-> PadRight(inputs[i], pad_len, 0)]

\* prepare_tensor(inputs, out_steps): right-pad axis 1 of 2-D arrays with 0
prepare_tensor(inputs, out_steps) ==
    LET max_len == MaxOf({Shape1(inputs[i]) : i \in DOMAIN inputs}) + 1
        pad_len == pad_per_step(max_len, out_steps)
    IN [i \in DOMAIN inputs |->
           [c \in DOMAIN inputs[i] |-> PadRight(inputs[i][c], pad_len, 0)]]

\* prepare_stop_target(inputs, out_steps): right-pad 1-D arrays with 1.0
prepare_stop_target(inputs, out_steps) ==
    LET max_len == MaxOf({Len(inputs[i]) : i \in DOMAIN inputs})
        pad_len == pad_per_step(max_len, out_steps)
    IN [i \in DOMAIN inputs |-> PadRight(inputs[i], pad_len, 1)]

\* x.shape[2] of a stacked batch B x bins x T
Shape2(x) == Shape1(x[1])

shapes_agree_always(sps, aps) == TRUE

\* line 117: assert sps.shape[2] == aps.shape[2]
shapes_agree(sps, aps) == Shape2(sps) = Shape2(aps)

no_transpose(x) == x

\* lines 121-122: x.transpose(0, 2, 1)
transpose_0_2_1(x) == [b \in DOMAIN x |-> Transpose2D(x[b])]

\* lines 78-137
collate_fn(batch, r) ==
    LET err == extract_error(batch) IN
    IF err.exc # "none" THEN Raised(err.exc, err.line, FALSE)
    ELSE IF length_error(batch).exc # "none"
    THEN Raised(length_error(batch).exc, length_error(batch).line, FALSE)
    ELSE IF padding_error(batch).exc # "none"
    THEN Raised(padding_error(batch).exc, padding_error(batch).line, TRUE)
    ELSE
    LET f0s == [i \in DOMAIN batch |-> Field(batch[i], "f0")]
        sps == [i \in DOMAIN batch |-> Field(batch[i], "sp")]
        aps == [i \in DOMAIN batch |-> Field(batch[i], "ap")]
        item_idxs == [i \in DOMAIN batch |-> Field(batch[i], "item_idx")]
        text == [i \in DOMAIN batch |-> Field(batch[i], "text")]
        text_lenghts == [i \in DOMAIN batch |-> text_length(text[i])]
        spec_lengths == [i \in DOMAIN batch |-> spec_length(sps[i])]
        stop_targets == prepare_stop_target(
            [i \in DOMAIN batch |-> stop_target_init(spec_lengths[i])], r)
        text_p == prepare_data(text)
        f0s_p == prepare_data_steps(f0s, r)
        sps_p == prepare_tensor(sps, r)
        aps_p == prepare_tensor(aps, r)
    IN IF ~shapes_agree(sps_p, aps_p) THEN Raised("AssertionError", 117, TRUE)
       ELSE [status |-> "returned",
             text |-> text_p,
             text_lenghts |-> text_lenghts,
             sp |-> transpose_0_2_1(sps_p),
             ap |-> transpose_0_2_1(aps_p),
             f0 |-> f0s_p,
             spec_lengths |-> spec_lengths,
             stop_targets |-> stop_targets,
             item_idx |-> item_idxs[1]]

\* collate_fn reads self.outputs_per_step only and leaves the dataset
\* unchanged, so one call per behaviour covers them all.
Collate ==
    /\ pc = "ready"
    /\ op = NoOp
    /\ \E batch \in Batches :
         /\ op' = [name |-> "collate_fn", batch |-> batch]
         /\ ret' = collate_fn(batch, outputs_per_step)
    /\ UNCHANGED <<csv, min_seq_len, outputs_per_step, frames, ignored, pc,
                   has_collections_mapping>>

\* a dataset constructed from a one-record manifest
Init ==
    /\ csv = <<Line(1, 1)>>
    /\ min_seq_len = 0
    /\ outputs_per_step \in 1..MaxR
    /\ frames = csv
    /\ ignored = <<>>
    /\ pc = "ready"
    /\ op = NoOp
    /\ ret = NoRet
    /\ has_collections_mapping \in BOOLEAN

Next == Collate

Spec == Init /\ [][Next]_vars

(***************************************************************************)
(* Batch assembler claims.                                                 *)
(***************************************************************************)
Called == op.name = "collate_fn"

Produced == Called /\ ret.status = "returned"

BatchSize == Len(op.batch)

\* frames(spectral_envelope[i]) of the i-th input example
FramesOf(i) == Shape1(op.batch[i].sp)

MaxFramesOfBatch == MaxOf({FramesOf(i) : i \in 1..BatchSize})

\* axis 1 of the returned tensors
TimeOfSp == Len(ret.sp[1])
TimeOfAp == Len(ret.ap[1])
TimeOfPitch == Len(ret.f0[1])
TimeOfStop == Len(ret.stop_targets[1])

\* n is the smallest multiple of r that is >= m
SmallestMultiple(n, r, m) == n % r = 0 /\ n >= m /\ n - r < m

\* row x is the array a followed by zeros only
ZeroPadded(x, a) ==
    /\ Len(x) >= Len(a)
    /\ \A j \in 1..Len(x) : x[j] = (IF j <= Len(a) THEN a[j] ELSE 0)

\* C3: for every produced batch and every example i, with
\* frame_len[i] = frames(spectral_envelope[i]) + 1, stop_targets[i, j] is
\* 0.0 for j < frame_len[i] - 1 and 1.0 for every j >= frame_len[i] - 1 up
\* to the padded length (j counted from 0).
C3_StopTargets ==
    Produced =>
        \A i \in 1..BatchSize :
            /\ ret.spec_lengths[i] = FramesOf(i) + 1
            /\ \A j \in 0..(Len(ret.stop_targets[i]) - 1) :
                   ret.stop_targets[i][j + 1]
                       = (IF j < ret.spec_lengths[i] - 1 THEN 0 ELSE 1)

\* a batch of two examples of different frame counts
C3_Witness ==
    /\ Produced
    /\ BatchSize = 2
    /\ FramesOf(1) < FramesOf(2)
    /\ ret.stop_targets[1][1] = 0
    /\ ret.stop_targets[1][FramesOf(1) + 1] = 1
    /\ ret.stop_targets[2][FramesOf(2)] = 0

\* C4: for every produced batch the time dimension (axis 1) of the
\* returned spectral_envelope, aperiodicity and pitch tensors is the same
\* number, and it is an exact multiple of outputs_per_step.
C4_TimeAxisAligned ==
    Produced =>
        /\ TimeOfSp = TimeOfAp
        /\ TimeOfAp = TimeOfPitch
        /\ TimeOfSp % outputs_per_step = 0

\* C5: for every produced batch the padded frame-axis length is the
\* smallest multiple of outputs_per_step that is >= the maximum
\* spectral-envelope frame count + 1, and every returned
\* frame_lengths[i] = frames(i) + 1 is <= that length.
C5_PaddedFrameLength ==
    Produced =>
        /\ SmallestMultiple(TimeOfSp, outputs_per_step, MaxFramesOfBatch + 1)
        /\ \A i \in 1..BatchSize :
               /\ ret.spec_lengths[i] = FramesOf(i) + 1
               /\ ret.spec_lengths[i] <= TimeOfSp

\* the maximum frame count is itself a multiple of outputs_per_step
C5_Witness ==
    /\ Produced
    /\ outputs_per_step > 1
    /\ MaxFramesOfBatch % outputs_per_step = 0
    /\ TimeOfSp = MaxFramesOfBatch + outputs_per_step

\* C6: whenever a batch contains an example whose aperiodicity frame count
\* differs from its spectral-envelope frame count, collate_fn fails with a
\* fatal error and returns no batch.
C6_MismatchIsFatal ==
    (/\ Called
     /\ \E i \in 1..BatchSize : Shape1(op.batch[i].ap) # FramesOf(i))
        => ret.status = "raised"

RequiredFields == {"text", "f0", "sp", "ap"}

\* a well-formed record: a Mapping that holds an array under each of the
\* four required fields
WellFormed(d) ==
    /\ d.mapping
    /\ d.subscript = "keys"
    /\ RequiredFields \subseteq d.keys
    /\ d.nones \cap RequiredFields = {}

\* C8: every call whose batch is empty, or in which any example (at any
\* position) is not a well-formed record with the required fields, ends
\* in an error raised before any padding is done, and no batch is
\* returned.
C8_MalformedIsFatal ==
    (/\ Called
     /\ \/ op.batch = <<>>
        \/ \E i \in 1..BatchSize : ~WellFormed(op.batch[i]))
        => ret.status = "raised" /\ ~ret.padded

\* C9: for every produced batch, token_lengths and frame_lengths have
\* batch_size entries each, and for every example i, token_lengths[i] is
\* <= the width of the padded tokens tensor and every entry of row i at a
\* position >= token_lengths[i] is the padding value 0.
C9_TokenPadding ==
    Produced =>
        /\ Len(ret.text_lenghts) = BatchSize
        /\ Len(ret.spec_lengths) = BatchSize
        /\ Len(ret.text) = BatchSize
        /\ \A i \in 1..BatchSize :
               /\ Len(ret.text[i]) = Len(ret.text[1])
               /\ ret.text_lenghts[i] <= Len(ret.text[i])
               /\ \A j \in (ret.text_lenghts[i] + 1)..Len(ret.text[i]) :
                      ret.text[i][j] = 0

\* two examples with token sequences of different lengths
C9_Witness ==
    /\ Produced
    /\ BatchSize = 2
    /\ ret.text_lenghts[1] < ret.text_lenghts[2]
    /\ ret.text[1][Len(ret.text[1])] = 0
    /\ ret.text[2][Len(ret.text[2])] # 0

\* C10: every stop-target vector is right-padded with 1.0 to the
\* smallest multiple of outputs_per_step that is >= max(frame_len) - 1
\* (the maximum frame count), and pitch, spectral_envelope and
\* aperiodicity are zero-padded along time to that same length.
C10_CommonLength ==
    Produced =>
        /\ SmallestMultiple(TimeOfStop, outputs_per_step, MaxFramesOfBatch)
        /\ \A i \in 1..BatchSize :
               /\ Len(ret.stop_targets[i]) = TimeOfStop
               /\ \A j \in (FramesOf(i) + 1)..TimeOfStop :
                      ret.stop_targets[i][j] = 1
        /\ TimeOfPitch = TimeOfStop
        /\ TimeOfSp = TimeOfStop
        /\ TimeOfAp = TimeOfStop
        /\ \A i \in 1..BatchSize :
               /\ ZeroPadded(ret.f0[i], op.batch[i].f0)
               /\ \A c \in 1..FreqBins :
                      /\ ZeroPadded([t \in 1..TimeOfSp |-> ret.sp[i][t][c]],
                                    op.batch[i].sp[c])
                      /\ ZeroPadded([t \in 1..TimeOfAp |-> ret.ap[i][t][c]],
                                    op.batch[i].ap[c])

====
